---------------------------- MODULE Spec2Model ----------------------------
(***************************************************************************)
(* A model of ImagesConnector (src/main.rs): the vertical compositor       *)
(* join_photos_vertically, the palette extractor get_color_palette, the    *)
(* text overlay write_text, the argument parser Paths::new and the batch   *)
(* driver main with its two nested rayon par_iter().for_each loops.        *)
(*                                                                         *)
(* A path is a sequence of one-character strings.  A file is a record      *)
(* [ok, w, h, px]: ok says whether image::open decodes it; px is the raw   *)
(* RGBA buffer in row-major order, one element per pixel.  A pixel is a    *)
(* sequence: its first element is the source colour, every later element   *)
(* is a colour that draw_text_mut blended onto it, so drawing twice gives  *)
(* a pixel that differs from drawing once.                                 *)
(***************************************************************************)
EXTENDS Integers, Sequences, FiniteSets, TLC

VARIABLES
    args,       \* std::env::args(): the argument list, program name first
    mainPc,     \* position of main
    exitCode,   \* the process's exit status once it has ended, else -1
    paths,      \* the Paths value returned by Paths::new
    months,     \* the Vec of directory entries of paths.first_path
    images,     \* the Vec of directory entries of paths.second_path
    threads,    \* number of threads of the rayon pool
    imgPc,      \* position of each outer task (one per entry of images)
    imgLeaf,    \* outer loop: first index of the sequential chunk of each entry
    color,      \* the Color each outer task extracted
    pairPc,     \* position of each inner task (one per image, month)
    pairLeaf,   \* inner loops: first index of the sequential chunk of each month
    status,     \* the u32 write_text returned to each inner task, else -1
    stdout,     \* what the process has printed
    fs,         \* the file system: path -> file
    dirs,       \* the input directories: path -> entry names, in read_dir order
    run,        \* how many times the program has been started
    prevFs,     \* the file system when the previous run ended
    jin,        \* a direct call of join_photos_vertically: its three paths, and
                \* whether the file system lets the result be written
    jres,       \* the result of that call
    fsBefore    \* the file system before that call

vars == << args, mainPc, exitCode, paths, months, images, threads, imgPc,
           imgLeaf, color, pairPc, pairLeaf, status, stdout, fs, dirs, run,
           prevFs, jin, jres, fsBefore >>

batchVars == << args, mainPc, exitCode, paths, months, images, threads, imgPc,
                imgLeaf, color, pairPc, pairLeaf, status, stdout, dirs, run,
                prevFs >>

-----------------------------------------------------------------------------
(* Bounds of the model *)

MaxW == 2       \* widths of the images given to a direct join call
MaxH == 2       \* heights of those images
MaxShade == 2   \* number of pixel patterns per size
MaxArgs == 5    \* longest argument list, program name included
MaxPairs == 4   \* most (image, month) pairs of one batch
MaxThreads == 2 \* most threads of the rayon pool

-----------------------------------------------------------------------------
(* Files and images *)

Garbage == [ok |-> FALSE, w |-> 0, h |-> 0, px |-> << >>]

Img(width, height, buffer) == [ok |-> TRUE, w |-> width, h |-> height, px |-> buffer]

\* A w x h image whose pixel number i (row-major, from 1) has colour k + i.
Ramp(width, height, k) == Img(width, height, [i \in 1..(width * height) |-> << k + i >>])

\* image::open: Err when the file is absent or cannot be decoded.
Open(f, path) == IF path \in DOMAIN f /\ f[path].ok THEN f[path] ELSE Garbage

\* DynamicImage::to_rgba followed by into_raw: the row-major pixel buffer.
IntoRaw(img) == img.px

\* Row r (from 0) of an image, as save/open lay the buffer out.
Row(img, r) == SubSeq(img.px, r * img.w + 1, (r + 1) * img.w)

Put(f, path, file) == [p \in (DOMAIN f) \cup {path} |-> IF p = path THEN file ELSE f[p]]

\* image::save_buffer / DynamicImage::save: File::create then the encoder.
\* save = "ok"; "create_failed" (the file is not touched); "write_failed"
\* (the file was created and truncated, the encoder's write failed).
SaveBuffer(f, path, buffer, width, height, save) ==
    CASE save = "ok" -> [res |-> "Ok", fs |-> Put(f, path, Img(width, height, buffer))]
      [] save = "create_failed" -> [res |-> "CouldntSaveFile", fs |-> f]
      [] OTHER -> [res |-> "CouldntSaveFile", fs |-> Put(f, path, Garbage)]

SaveOutcomes == {"ok", "create_failed", "write_failed"}

-----------------------------------------------------------------------------
(* join_photos_vertically *)

\* Faulty variant: the second image's buffer is put first.
JoinSwapped(f, first_path, second_path, result_path, save) ==
    LET a == Open(f, first_path)
        b == Open(f, second_path)
    IN  IF ~a.ok \/ ~b.ok THEN [res |-> "NotFound", fs |-> f]
        ELSE IF a.w # b.w THEN [res |-> "MismatchSize", fs |-> f]
        ELSE SaveBuffer(f, result_path, IntoRaw(b) \o IntoRaw(a), a.w, a.h + b.h, save)

\* Faulty variant: the width check comes after the save.
JoinLateCheck(f, first_path, second_path, result_path, save) ==
    LET a == Open(f, first_path)
        b == Open(f, second_path)
        s == SaveBuffer(f, result_path, IntoRaw(a) \o IntoRaw(b), a.w, a.h + b.h, save)
    IN  IF ~a.ok \/ ~b.ok THEN [res |-> "NotFound", fs |-> f]
        ELSE IF a.w # b.w THEN [res |-> "MismatchSize", fs |-> s.fs]
        ELSE s

\* Faulty variant: a result file that exists already is kept.
JoinKeepsExisting(f, first_path, second_path, result_path, save) ==
    IF result_path \in DOMAIN f /\ f[result_path].ok
    THEN [res |-> "Ok", fs |-> f]
    ELSE LET a == Open(f, first_path)
             b == Open(f, second_path)
         IN  IF ~a.ok \/ ~b.ok THEN [res |-> "NotFound", fs |-> f]
             ELSE IF a.w # b.w THEN [res |-> "MismatchSize", fs |-> f]
             ELSE SaveBuffer(f, result_path, IntoRaw(a) \o IntoRaw(b), a.w,
                             a.h + b.h, save)

JoinPhotosVertically(f, first_path, second_path, result_path, save) ==
    LET first_img == Open(f, first_path)
        second_img == Open(f, second_path)
    IN  IF ~first_img.ok THEN [res |-> "NotFound", fs |-> f]
        ELSE IF ~second_img.ok THEN [res |-> "NotFound", fs |-> f]
        ELSE IF first_img.w # second_img.w THEN [res |-> "MismatchSize", fs |-> f]
        ELSE LET width == first_img.w
                 height == first_img.h + second_img.h
                 buffer == IntoRaw(first_img) \o IntoRaw(second_img)
             IN  SaveBuffer(f, result_path, buffer, width, height, save)

-----------------------------------------------------------------------------
(* Paths and names *)

Max(a, b) == IF a >= b THEN a ELSE b

\* The last index of character c in s, 0 when s has none.
LastIndex(s, c) == Max(0, CHOOSE i \in 0..Len(s) :
                              /\ i > 0 => s[i] = c
                              /\ \A j \in (i + 1)..Len(s) : s[j] # c)

\* Path::file_name: the last component.
FileName(path) == SubSeq(path, LastIndex(path, "/") + 1, Len(path))

\* Path::file_stem: the file name before its final '.', the whole name when
\* it has no '.' or only a leading one.
FileStem(path) ==
    LET name == FileName(path)
        dot == LastIndex(name, ".")
    IN  IF dot <= 1 THEN name ELSE SubSeq(name, 1, dot - 1)

\* format!("{}/{}-{}.png", export_path, month stem, image stem)
OutPath(export_path, month, image) ==
    export_path \o << "/" >> \o FileStem(month) \o << "-" >> \o FileStem(image)
        \o << ".", "p", "n", "g" >>

\* Faulty variant: the length test is off by one.
PathsNewOffByOne(a) ==
    IF Len(a) < 3
    THEN [err |-> TRUE, first_path |-> << >>, second_path |-> << >>, export_path |-> << >>]
    ELSE [err |-> FALSE, first_path |-> a[2], second_path |-> a[3],
          export_path |-> IF Len(a) >= 4 THEN a[4] ELSE << >>]

\* Paths::new: err stands for Err(NotEnoughArguments).
PathsNew(a) ==
    IF Len(a) < 4
    THEN [err |-> TRUE, first_path |-> << >>, second_path |-> << >>, export_path |-> << >>]
    ELSE [err |-> FALSE, first_path |-> a[2], second_path |-> a[3], export_path |-> a[4]]

NoPaths == [err |-> TRUE, first_path |-> << >>, second_path |-> << >>, export_path |-> << >>]

\* fs::read_dir(dir) collected into a Vec of paths; << >> with ok = FALSE when
\* read_dir fails.
ReadDir(d, dir) ==
    IF dir \in DOMAIN d
    THEN [ok |-> TRUE, entries |-> [i \in 1..Len(d[dir]) |-> dir \o << "/" >> \o d[dir][i]]]
    ELSE [ok |-> FALSE, entries |-> << >>]

-----------------------------------------------------------------------------
(* get_color_palette *)

PaletteSize == 256
SecondaryIndex == 200

NoColor == [primary |-> -1, secondary |-> -1]

\* exoquant::convert_to_indexed: a palette of PaletteSize colours of the image.
\* Entry k stands for the source colour of pixel (k mod n) + 1.
Palette(img) ==
    [k \in 0..(PaletteSize - 1) |-> img.px[(k % Len(img.px)) + 1][1]]

\* Color { primary: palette[0], secondary: palette[200] }, alpha forced to 255.
GetColorPalette(img) ==
    [primary |-> Palette(img)[0], secondary |-> Palette(img)[SecondaryIndex]]

-----------------------------------------------------------------------------
(* write_text *)

\* The pixel the glyphs "20" and "19" cover, in the model's scale.
TextX20 == 0
TextX19 == 1
TextY == 1

\* imageproc::drawing::draw_text_mut: blends the colour onto the covered
\* pixel; pixels outside the image are left out.
DrawText(img, col, x, y) ==
    IF x < img.w /\ y < img.h
    THEN [img EXCEPT !.px[y * img.w + x + 1] = @ \o << col >>]
    ELSE img

\* Faulty variant: the result of save is not looked at.
WriteTextAlwaysOne(f, path, col, openOk, save) ==
    LET opened == Open(f, path)
        drawn == DrawText(DrawText(opened, col.primary, TextX20, TextY),
                          col.secondary, TextX19, TextY)
        saved == SaveBuffer(f, path, drawn.px, drawn.w, drawn.h, save)
    IN  IF ~openOk \/ ~opened.ok
        THEN [panic |-> TRUE, status |-> -1, fs |-> f]
        ELSE [panic |-> FALSE, status |-> 1, fs |-> saved.fs]

\* write_text: panic stands for the expect on image::open; openOk is whether
\* the operating system lets the file be opened.
WriteText(f, path, col, openOk, save) ==
    LET opened == Open(f, path)
        drawn == DrawText(DrawText(opened, col.primary, TextX20, TextY),
                          col.secondary, TextX19, TextY)
        saved == SaveBuffer(f, path, drawn.px, drawn.w, drawn.h, save)
    IN  IF ~openOk \/ ~opened.ok
        THEN [panic |-> TRUE, status |-> -1, fs |-> f]
        ELSE [panic |-> FALSE, status |-> IF saved.res = "Ok" THEN 1 ELSE 0,
              fs |-> saved.fs]

-----------------------------------------------------------------------------
(* rayon: par_iter().for_each over a Vec *)

\* The sequential chunks bridge_producer_consumer cuts n items into: a function
\* from each index to the first index of its chunk.  A range of len items is
\* halved while len / 2 >= 1 and the splitter allows it: a stolen (migrated)
\* job always splits and resets its count to at least the thread count, any
\* other splits while its count, halved at each split, is positive.
RECURSIVE Parts(_, _, _, _, _)
Parts(lo, len, splits, migrated, t) ==
    LET leaf == { [k \in lo..(lo + len - 1) |-> lo] }
        mid == len \div 2
        SplitWith(s) ==
            { l @@ r : l \in Parts(lo, mid, s, FALSE, t),
                       r \in UNION { Parts(lo + mid, len - mid, s, mg, t) :
                                     mg \in IF t > 1 THEN BOOLEAN ELSE {FALSE} } }
    IN  IF len < 2 THEN leaf
        ELSE IF migrated THEN SplitWith(Max(t, splits \div 2))
        ELSE IF splits > 0 THEN SplitWith(splits \div 2)
        ELSE leaf

Leaves(n, t) == Parts(1, n, t, FALSE, t)

\* The items a panic at item k leaves unexecuted: the rest of k's chunk.
RestOfLeaf(leafOf, k) == { j \in DOMAIN leafOf : j > k /\ leafOf[j] = leafOf[k] }

\* Item k is the next of its chunk to run: pcs are the items' positions.
NextInLeaf(leafOf, pcs, k) == IF leafOf[k] = k THEN TRUE ELSE pcs[k - 1] = "done"

-----------------------------------------------------------------------------
(* The inputs of a batch *)

MonthsDir == << "M" >>
ImagesDir == << "I" >>
ExportDir == << "E" >>

\* The entries the months directory may hold, in read_dir order: j.p and j.g
\* (two 2x1 images with one stem), f.p (a 1x1 image) and d (a subdirectory).
MonthNames == << << "j", ".", "p" >>, << "f", ".", "p" >>, << "j", ".", "g" >>, << "d" >> >>

\* The entries the images directory may hold: c.p (2x2), k.p (2x1) and k.t
\* (a text file with the stem of k.p).
ImageNames == << << "c", ".", "p" >>, << "k", ".", "p" >>, << "k", ".", "t" >> >>

\* What each of these files holds.
Content(path) ==
    CASE path = MonthsDir \o << "/", "j", ".", "p" >> -> Ramp(2, 1, 10)
      [] path = MonthsDir \o << "/", "j", ".", "g" >> -> Ramp(2, 1, 20)
      [] path = MonthsDir \o << "/", "f", ".", "p" >> -> Ramp(1, 1, 30)
      [] path = ImagesDir \o << "/", "c", ".", "p" >> -> Ramp(2, 2, 40)
      [] path = ImagesDir \o << "/", "k", ".", "p" >> -> Ramp(2, 1, 50)
      [] OTHER -> Garbage

\* The subsequence of s at the indices in S.
RECURSIVE Pick(_, _)
Pick(s, S) ==
    IF s = << >> THEN << >>
    ELSE LET front == Pick(SubSeq(s, 1, Len(s) - 1), S)
         IN  IF Len(s) \in S THEN Append(front, s[Len(s)]) ELSE front

Listings(names) == { Pick(names, S) : S \in SUBSET (1..Len(names)) }

\* The two input directories of a batch of at most MaxPairs pairs.
DirChoices ==
    { (MonthsDir :> c[1]) @@ (ImagesDir :> c[2]) :
        c \in { x \in Listings(MonthNames) \X Listings(ImageNames) :
                Len(x[1]) * Len(x[2]) <= MaxPairs } }

\* The files of the input directories d.
InputFiles(d) ==
    UNION { { dir \o << "/" >> \o d[dir][i] : i \in 1..Len(d[dir]) } : dir \in DOMAIN d }

ArgAt(i) ==
    CASE i = 1 -> << "p" >>
      [] i = 2 -> MonthsDir
      [] i = 3 -> ImagesDir
      [] i = 4 -> ExportDir
      [] OTHER -> << "x" >>

\* The argument lists: the program name and up to MaxArgs - 1 arguments, and
\* one list that names a directory that does not exist.
ArgLists ==
    { [i \in 1..n |-> ArgAt(i)] : n \in 1..MaxArgs }
        \cup { << << "p" >>, MonthsDir, << "x" >>, ExportDir >> }

StandardArgs == << << "p" >>, MonthsDir, ImagesDir, ExportDir >>

JanCat == (MonthsDir :> << << "j", ".", "p" >> >>) @@ (ImagesDir :> << << "c", ".", "p" >> >>)

-----------------------------------------------------------------------------
(* main *)

\* join_photos_vertically(..).unwrap(): Err panics the task.
AfterJoin(res) == IF res = "Ok" THEN "joined" ELSE "failed"

\* Faulty variant: a palette that cannot be extracted is replaced by a default.
AfterPaletteDefaults(img) == "inner"

\* image::open(path).expect(..) in get_color_palette: Err panics the task.
AfterPalette(img) == IF img.ok THEN "inner" ELSE "panicked"

\* Faulty variant: the overlay does not wait for the compositor.
OverlayReadyEarly(pc) == pc \in {"todo", "joined"}

\* The statement after the compositor's in the closure: write_text runs once
\* join_photos_vertically has returned Ok.
OverlayReady(pc) == pc = "joined"

\* Faulty variant: the compositor runs again for a pair that failed.
JoinReadyRetries(pc) == pc \in {"todo", "failed"}

\* The closure runs the compositor once, as its first statement.
JoinReady(pc) == pc = "todo"

Panicked == {"failed", "overlay_panicked"}
Settled == {"done", "skipped"} \cup Panicked

PairsOf(i) == [m \in 1..Len(months) |-> pairPc[i, m]]

\* A task's panic: item k takes the position pc, the rest of its chunk is never run.
PanicAt(pcs, leafOf, k, pc) ==
    [j \in DOMAIN pcs |-> IF j = k THEN pc
                          ELSE IF j \in RestOfLeaf(leafOf, k) THEN "skipped"
                          ELSE pcs[j]]

SetPairs(i, pcs) ==
    [x \in DOMAIN pairPc |-> IF x[1] = i THEN pcs[x[2]] ELSE pairPc[x]]

OutPathOf(i, m) == OutPath(paths.export_path, months[m], images[i])

ParseArgs ==
    /\ mainPc = "start"
    /\ LET r == PathsNew(args)
       IN  /\ paths' = r
           /\ IF r.err
              THEN stdout' = "HELP" /\ mainPc' = "exited" /\ exitCode' = 1
              ELSE stdout' = stdout /\ mainPc' = "parsed" /\ exitCode' = exitCode
    /\ UNCHANGED << args, months, images, threads, imgPc, imgLeaf, color, pairPc,
                    pairLeaf, status, fs, dirs, run, prevFs, jin, jres, fsBefore >>

ListDirs ==
    /\ mainPc = "parsed"
    /\ LET ms == ReadDir(dirs, paths.first_path)
           is == ReadDir(dirs, paths.second_path)
           nI == Len(is.entries)
           nM == Len(ms.entries)
       IN  IF ~ms.ok \/ ~is.ok
           THEN /\ mainPc' = "panicked"
                /\ exitCode' = 101
                /\ UNCHANGED << months, images, imgPc, imgLeaf, color, pairPc,
                                pairLeaf, status >>
           ELSE /\ mainPc' = "running"
                /\ exitCode' = exitCode
                /\ months' = ms.entries
                /\ images' = is.entries
                /\ imgPc' = [i \in 1..nI |-> "todo"]
                /\ imgLeaf' \in Leaves(nI, threads)
                /\ color' = [i \in 1..nI |-> NoColor]
                /\ pairPc' = [x \in (1..nI) \X (1..nM) |-> "todo"]
                /\ pairLeaf' = [i \in 1..nI |-> [m \in 1..nM |-> m]]
                /\ status' = [x \in (1..nI) \X (1..nM) |-> -1]
    /\ UNCHANGED << args, paths, threads, stdout, fs, dirs, run, prevFs, jin, jres,
                    fsBefore >>

PaletteStep(i) ==
    /\ mainPc = "running"
    /\ i \in DOMAIN imgPc
    /\ imgPc[i] = "todo"
    /\ NextInLeaf(imgLeaf, imgPc, i)
    /\ LET img == Open(fs, images[i])
       IN  IF AfterPalette(img) = "panicked"
           THEN /\ imgPc' = PanicAt(imgPc, imgLeaf, i, "panicked")
                /\ UNCHANGED << color, pairLeaf >>
           ELSE /\ imgPc' = [imgPc EXCEPT ![i] = "inner"]
                /\ color' = [color EXCEPT ![i] =
                                IF img.ok THEN GetColorPalette(img) ELSE NoColor]
                /\ \E l \in Leaves(Len(months), threads) :
                       pairLeaf' = [pairLeaf EXCEPT ![i] = l]
    /\ UNCHANGED << args, mainPc, exitCode, paths, months, images, threads, imgLeaf,
                    pairPc, status, stdout, fs, dirs, run, prevFs, jin, jres,
                    fsBefore >>

JoinStep(i, m) ==
    /\ mainPc = "running"
    /\ << i, m >> \in DOMAIN pairPc
    /\ imgPc[i] = "inner"
    /\ JoinReady(pairPc[i, m])
    /\ NextInLeaf(pairLeaf[i], PairsOf(i), m)
    /\ \E save \in SaveOutcomes :
          LET r == JoinPhotosVertically(fs, images[i], months[m], OutPathOf(i, m), save)
          IN  /\ fs' = r.fs
              /\ pairPc' = IF AfterJoin(r.res) = "joined"
                           THEN [pairPc EXCEPT ![i, m] = "joined"]
                           ELSE SetPairs(i, PanicAt(PairsOf(i), pairLeaf[i], m, "failed"))
    /\ UNCHANGED << args, mainPc, exitCode, paths, months, images, threads, imgPc,
                    imgLeaf, color, pairLeaf, status, stdout, dirs, run, prevFs, jin,
                    jres, fsBefore >>

WriteTextStep(i, m) ==
    /\ mainPc = "running"
    /\ << i, m >> \in DOMAIN pairPc
    /\ imgPc[i] = "inner"
    /\ OverlayReady(pairPc[i, m])
    /\ \E openOk \in BOOLEAN, save \in SaveOutcomes :
          LET t == WriteText(fs, OutPathOf(i, m), color[i], openOk, save)
          IN  /\ fs' = t.fs
              /\ status' = [status EXCEPT ![i, m] = t.status]
              /\ pairPc' = IF t.panic
                           THEN SetPairs(i, PanicAt(PairsOf(i), pairLeaf[i], m,
                                                    "overlay_panicked"))
                           ELSE [pairPc EXCEPT ![i, m] = "done"]
    /\ UNCHANGED << args, mainPc, exitCode, paths, months, images, threads, imgPc,
                    imgLeaf, color, pairLeaf, stdout, dirs, run, prevFs, jin, jres,
                    fsBefore >>

\* The inner for_each returns, or resumes a task's panic, once every task of
\* it has ended.
InnerDone(i) ==
    /\ mainPc = "running"
    /\ i \in DOMAIN imgPc
    /\ imgPc[i] = "inner"
    /\ \A m \in 1..Len(months) : pairPc[i, m] \in Settled
    /\ imgPc' = IF \E m \in 1..Len(months) : pairPc[i, m] \in Panicked
                THEN PanicAt(imgPc, imgLeaf, i, "panicked")
                ELSE [imgPc EXCEPT ![i] = "done"]
    /\ UNCHANGED << args, mainPc, exitCode, paths, months, images, threads, imgLeaf,
                    color, pairPc, pairLeaf, status, stdout, fs, dirs, run, prevFs,
                    jin, jres, fsBefore >>

\* The outer for_each returns or resumes a panic; main ends.
MainDone ==
    /\ mainPc = "running"
    /\ \A i \in DOMAIN imgPc : imgPc[i] \in {"done", "panicked", "skipped"}
    /\ IF \E i \in DOMAIN imgPc : imgPc[i] = "panicked"
       THEN mainPc' = "panicked" /\ exitCode' = 101
       ELSE mainPc' = "done" /\ exitCode' = 0
    /\ UNCHANGED << args, paths, months, images, threads, imgPc, imgLeaf, color,
                    pairPc, pairLeaf, status, stdout, fs, dirs, run, prevFs, jin,
                    jres, fsBefore >>

\* After a run in which every pair was composited and overlaid, the program is
\* started a second time with the same arguments on the same directories.
Rerun ==
    /\ mainPc = "done"
    /\ \A x \in DOMAIN status : status[x] = 1
    /\ run = 1
    /\ run' = run + 1
    /\ prevFs' = fs
    /\ mainPc' = "start"
    /\ exitCode' = -1
    /\ stdout' = ""
    /\ paths' = NoPaths
    /\ months' = << >>
    /\ images' = << >>
    /\ imgPc' = << >>
    /\ imgLeaf' = << >>
    /\ color' = << >>
    /\ pairPc' = [x \in {} |-> "todo"]
    /\ pairLeaf' = << >>
    /\ status' = [x \in {} |-> -1]
    /\ UNCHANGED << args, threads, fs, dirs, jin, jres, fsBefore >>

NoCall == [first |-> << >>, second |-> << >>, result |-> << >>, save |-> "ok"]

Init ==
    /\ args \in ArgLists
    /\ dirs \in DirChoices
    /\ args = StandardArgs \/ dirs = JanCat
    /\ threads \in 1..MaxThreads
    /\ fs = [p \in InputFiles(dirs) |-> Content(p)]
    /\ prevFs = fs
    /\ run = 1
    /\ mainPc = "start"
    /\ exitCode = -1
    /\ stdout = ""
    /\ paths = NoPaths
    /\ months = << >>
    /\ images = << >>
    /\ imgPc = << >>
    /\ imgLeaf = << >>
    /\ color = << >>
    /\ pairPc = [x \in {} |-> "todo"]
    /\ pairLeaf = << >>
    /\ status = [x \in {} |-> -1]
    /\ jin = NoCall
    /\ jres = "none"
    /\ fsBefore = fs

Next ==
    \/ ParseArgs
    \/ ListDirs
    \/ \E i \in DOMAIN imgPc : PaletteStep(i)
    \/ \E x \in DOMAIN pairPc : JoinStep(x[1], x[2])
    \/ \E x \in DOMAIN pairPc : WriteTextStep(x[1], x[2])
    \/ \E i \in DOMAIN imgPc : InnerDone(i)
    \/ MainDone
    \/ Rerun

Spec == Init /\ [][Next]_vars

-----------------------------------------------------------------------------
(* A direct call of join_photos_vertically *)

FirstPath == << "A" >>
SecondPath == << "B" >>
ResultPath == << "o" >>

Absent == [ok |-> FALSE, w |-> -1, h |-> -1, px |-> << >>]

\* What an input file of the call may hold: nothing, bytes that do not decode,
\* or an image of a bounded size.
JoinInputs ==
    { Ramp(w, h, 10 * k) : w \in 1..MaxW, h \in 1..MaxH, k \in 1..MaxShade }
        \cup {Garbage, Absent}

FsOf(a, b, o) ==
    LET all == (FirstPath :> a) @@ (SecondPath :> b) @@ (ResultPath :> o)
    IN  [p \in { q \in DOMAIN all : all[q] # Absent } |-> all[p]]

InitJoin ==
    /\ \E save \in SaveOutcomes :
          jin = [first |-> FirstPath, second |-> SecondPath, result |-> ResultPath,
                 save |-> save]
    /\ \E a \in JoinInputs, b \in JoinInputs, o \in {Absent, Garbage, Ramp(1, 1, 90)} :
          fs = FsOf(a, b, o)
    /\ fsBefore = fs
    /\ jres = "none"
    /\ args = << >>
    /\ dirs = << >>
    /\ threads = 1
    /\ prevFs = fs
    /\ run = 1
    /\ mainPc = "idle"
    /\ exitCode = -1
    /\ stdout = ""
    /\ paths = NoPaths
    /\ months = << >>
    /\ images = << >>
    /\ imgPc = << >>
    /\ imgLeaf = << >>
    /\ color = << >>
    /\ pairPc = [x \in {} |-> "todo"]
    /\ pairLeaf = << >>
    /\ status = [x \in {} |-> -1]

JoinCall ==
    /\ jres = "none"
    /\ LET r == JoinPhotosVertically(fs, jin.first, jin.second, jin.result, jin.save)
       IN  fs' = r.fs /\ jres' = r.res
    /\ UNCHANGED << jin, fsBefore >>
    /\ UNCHANGED batchVars

NextJoin == JoinCall

SpecJoin == InitJoin /\ [][NextJoin]_vars

-----------------------------------------------------------------------------
(* Properties of join_photos_vertically, under SpecJoin *)

FirstImg == Open(fsBefore, FirstPath)
SecondImg == Open(fsBefore, SecondPath)

\* C1: for two decodable images of equal width W and heights H1 and H2, and a
\* result path the file system lets be written, join_photos_vertically
\* returns Ok and the result file is a W x (H1 + H2) image whose top H1 rows
\* are the first image's rows and whose bottom H2 rows are the second's.
C1_JoinStacksFirstOverSecond ==
    (/\ jres # "none"
     /\ FirstImg.ok /\ SecondImg.ok
     /\ FirstImg.w = SecondImg.w
     /\ jin.save = "ok")
    => /\ jres = "Ok"
       /\ ResultPath \in DOMAIN fs
       /\ LET out == fs[ResultPath]
          IN  /\ out.ok
              /\ out.w = FirstImg.w
              /\ out.h = FirstImg.h + SecondImg.h
              /\ Len(out.px) = out.w * out.h
              /\ \A r \in 0..(FirstImg.h - 1) : Row(out, r) = Row(FirstImg, r)
              /\ \A r \in 0..(SecondImg.h - 1) :
                     Row(out, FirstImg.h + r) = Row(SecondImg, r)
       /\ \A q \in DOMAIN fsBefore : q # ResultPath => fs[q] = fsBefore[q]

C1_Witness ==
    /\ jres = "Ok"
    /\ FirstImg.w = 2 /\ FirstImg.h = 2
    /\ SecondImg.w = 2 /\ SecondImg.h = 1
    /\ FirstImg.px[1] # SecondImg.px[1]
    /\ ResultPath \in DOMAIN fsBefore

\* C2: for two decodable images whose widths differ, join_photos_vertically
\* returns Err(MismatchSize) and leaves the file system, the result path
\* included, as it was before the call.
C2_MismatchWritesNothing ==
    (/\ jres # "none"
     /\ FirstImg.ok /\ SecondImg.ok
     /\ FirstImg.w # SecondImg.w)
    => /\ jres = "MismatchSize"
       /\ fs = fsBefore

C2_Witness ==
    /\ jres = "MismatchSize"
    /\ jin.save = "ok"
    /\ ResultPath \in DOMAIN fsBefore
    /\ fsBefore[ResultPath].ok

-----------------------------------------------------------------------------
(* Properties of the batch, under Spec *)

Pairs == DOMAIN pairPc

PathOfPair(x) == OutPathOf(x[1], x[2])

ImageOf(x) == Open(fs, images[x[1]])
MonthOf(x) == Open(fs, months[x[2]])

\* The inputs of pair x decode and have one width.
ValidPair(x) == ImageOf(x).ok /\ MonthOf(x).ok /\ ImageOf(x).w = MonthOf(x).w

\* How many times text was drawn onto the pixel the glyph "20" covers.
Layers(img) == Len(img.px[TextY * img.w + TextX20 + 1]) - 1

AllOverlaid == \A x \in Pairs : pairPc[x] = "done" /\ status[x] = 1

RunEnded == mainPc \in {"done", "panicked"}

\* C3: distinct (month, image) pairs have distinct output paths: no two pair
\* tasks write the same output file.
C3_DistinctPairsDistinctPaths ==
    \A x \in Pairs, y \in Pairs :
        (/\ x # y
         /\ pairPc[x] \in {"joined", "done"}
         /\ pairPc[y] \in {"joined", "done"})
        => PathOfPair(x) # PathOfPair(y)

\* C4: once the compositor has written a pair's output file (and no other pair
\* shares that file), the file's top band is the month image and its bottom
\* band is the content image.
C4_MonthOnTop ==
    \A x \in Pairs :
        (/\ mainPc = "running"
         /\ pairPc[x] = "joined"
         /\ \A y \in Pairs : y # x => PathOfPair(y) # PathOfPair(x)
         /\ PathOfPair(x) \in DOMAIN fs
         /\ fs[PathOfPair(x)].ok)
        => fs[PathOfPair(x)].px = MonthOf(x).px \o ImageOf(x).px

\* The overlay step acts on pair x in this step.
OverlayActs(x) ==
    /\ x \in DOMAIN pairPc'
    /\ pairPc'[x] \in {"done", "overlay_panicked"}
    /\ pairPc[x] \notin {"done", "overlay_panicked"}

\* C5: the overlay step of a pair begins only after the compositor of that
\* pair has returned Ok, in the same task and the same run, the composite
\* being on disk when the compositor returns; it never runs for a pair whose
\* compositor did not succeed.
C5_OverlayAfterCompositor ==
    [][\A x \in Pairs :
          /\ OverlayActs(x) => pairPc[x] = "joined" /\ run' = run
          /\ (x \in DOMAIN pairPc' /\ pairPc'[x] = "joined" /\ pairPc[x] # "joined")
                => /\ pairPc[x] = "todo"
                   /\ PathOfPair(x) \in DOMAIN fs'
                   /\ fs'[PathOfPair(x)].ok
                   /\ fs'[PathOfPair(x)].px = ImageOf(x).px \o MonthOf(x).px
          /\ (pairPc[x] \in {"failed", "skipped"} /\ run' = run)
                => pairPc'[x] = pairPc[x] /\ status'[x] = -1]_vars

C5_Witness ==
    /\ mainPc = "running"
    /\ \E x \in Pairs : pairPc[x] = "done" /\ status[x] = 1
    /\ \E x \in Pairs : pairPc[x] = "failed"
    /\ \E x \in Pairs : pairPc[x] = "joined"

\* Every image was decoded and its inner loop has ended, and no overlay
\* panicked: the only panics of the run are compositor failures.
OnlyCompositorFailures ==
    /\ RunEnded
    /\ \A i \in DOMAIN imgPc : imgPc[i] \in {"done", "panicked"} /\ color[i] # NoColor
    /\ \A x \in Pairs : pairPc[x] # "overlay_panicked"

EarlierInLeaf(x) ==
    { y \in Pairs : /\ y[1] = x[1]
                    /\ y[2] < x[2]
                    /\ pairLeaf[x[1]][y[2]] = pairLeaf[x[1]][x[2]] }

C7_OverlayNeverPropagates ==
    \A x \in Pairs : /\ pairPc[x] # "overlay_panicked"
                     /\ pairPc[x] = "done" => status[x] \in {0, 1}

\* C7 as amended: when write_text returns, the task goes on whatever the
\* status; status 1 means the file was saved with the text drawn on the
\* composite it held, status 0 means the save failed; a composite that cannot
\* be opened gives no status: the task panics and the file is left as it was.
C7_SaveFailureIsStatusZeroOpenFailurePanics ==
    [][\A x \in Pairs :
          OverlayActs(x) =>
             LET path == PathOfPair(x)
                 before == Open(fs, path)
                 drawn == DrawText(DrawText(before, color[x[1]].primary, TextX20, TextY),
                                   color[x[1]].secondary, TextX19, TextY)
             IN  /\ pairPc'[x] = "done" <=> status'[x] \in {0, 1}
                 /\ pairPc'[x] = "overlay_panicked" <=> status'[x] = -1
                 /\ status'[x] = 1 => /\ before.ok
                                      /\ fs'[path] = drawn
                                      /\ Layers(fs'[path]) = Layers(before) + 1
                 /\ status'[x] = 0 => /\ before.ok
                                      /\ \/ fs' = fs
                                         \/ fs'[path] = Garbage
                 /\ status'[x] = -1 => fs' = fs
                 /\ ~before.ok => pairPc'[x] = "overlay_panicked"]_vars

C7_Witness ==
    /\ \E x \in Pairs : pairPc[x] = "overlay_panicked" /\ status[x] = -1
    /\ \E x \in Pairs : pairPc[x] = "done" /\ status[x] = 0
    /\ \E x \in Pairs : pairPc[x] = "done" /\ status[x] = 1

\* C8: for an entry of the images directory that cannot be opened or decoded,
\* no compositor and no overlay step is ever run for a pair of it, and its
\* output paths hold no file, but one written for a pair of a decodable image
\* that has the same output path.
C8_NoPaletteNoPairs ==
    \A x \in Pairs :
        ~ImageOf(x).ok
        => /\ pairPc[x] = "todo"
           /\ status[x] = -1
           /\ color[x[1]] = NoColor
           /\ imgPc[x[1]] \in {"todo", "panicked", "skipped"}
           /\ \/ PathOfPair(x) \notin DOMAIN fs
              \/ \E y \in Pairs : /\ ImageOf(y).ok
                                  /\ PathOfPair(y) = PathOfPair(x)

C8_Witness ==
    /\ RunEnded
    /\ \E i \in DOMAIN imgPc :
          /\ imgPc[i] = "panicked"
          /\ ~Open(fs, images[i]).ok
          /\ Len(months) >= 2
          /\ \A m \in 1..Len(months) :
                /\ MonthOf(<< i, m >>).ok
                /\ PathOfPair(<< i, m >>) \notin DOMAIN fs
    /\ \E x \in Pairs : pairPc[x] = "done"

SecondRunOverlaid == run = 2 /\ mainPc = "done" /\ AllOverlaid /\ Pairs # {}

\* C9 as stated: after the second run every output file carries the overlay
\* twice.
C9_RerunDoublesOverlay ==
    SecondRunOverlaid
    => \A x \in Pairs : Layers(fs[PathOfPair(x)]) = 2

\* The pairs written to the output file of x.
SharingPath(x) == { y \in Pairs : PathOfPair(y) = PathOfPair(x) }

\* C9 as amended: the second run writes the file names the first run wrote and
\* no other; each output file was overwritten by the second run's compositor,
\* so it carries the overlays of the second run alone: one overlay, not two,
\* when one pair is written to it, and never more than one for each pair
\* written to it.
C9_RerunOverwritesThenOverlaysOnce ==
    SecondRunOverlaid
    => /\ DOMAIN fs = DOMAIN prevFs
       /\ \A x \in Pairs :
             /\ fs[PathOfPair(x)].ok
             /\ Layers(prevFs[PathOfPair(x)]) >= 1
             /\ Layers(fs[PathOfPair(x)]) >= 1
             /\ Layers(fs[PathOfPair(x)]) <= Cardinality(SharingPath(x))
             /\ SharingPath(x) = {x}
                   => /\ Layers(fs[PathOfPair(x)]) = 1
                      /\ fs[PathOfPair(x)] = prevFs[PathOfPair(x)]

C9_Witness ==
    /\ SecondRunOverlaid
    /\ Cardinality(Pairs) >= 2
    /\ \A x \in Pairs : SharingPath(x) = {x}

\* C10: with fewer than three path arguments the program prints the usage
\* text and exits with status 1 without listing a directory, extracting a
\* palette or writing a file; with three or more it never prints the usage
\* text nor exits that way, and the first three are the months directory, the
\* images directory and the export directory.
C10_UsageExitOrFirstThreeArgs ==
    /\ (Len(args) < 4 /\ mainPc # "start")
          => /\ mainPc = "exited"
             /\ exitCode = 1
             /\ stdout = "HELP"
             /\ months = << >> /\ images = << >>
             /\ Pairs = {} /\ DOMAIN color = {}
             /\ fs = [q \in InputFiles(dirs) |-> Content(q)]
    /\ Len(args) >= 4
          => /\ mainPc # "exited"
             /\ exitCode # 1
             /\ stdout = ""
             /\ mainPc # "start"
                   => paths = [err |-> FALSE, first_path |-> args[2],
                               second_path |-> args[3], export_path |-> args[4]]
             /\ mainPc = "running"
                   => /\ months = ReadDir(dirs, args[2]).entries
                      /\ images = ReadDir(dirs, args[3]).entries
                      /\ \A x \in Pairs :
                            SubSeq(PathOfPair(x), 1, Len(args[4])) = args[4]

C10_Witness ==
    /\ Len(args) = 3
    /\ mainPc = "exited"
    /\ exitCode = 1
    /\ stdout = "HELP"

=============================================================================
